---- MODULE Spec2Model ----
(***************************************************************************)
(* Model of the WidgetPosition mixin of alloy-editor (widget-position):    *)
(* the interaction-point resolver, the placement translator, the viewport  *)
(* constraint and the show / updatePosition / animation-frame controller.  *)
(*                                                                         *)
(* Lengths are whole pixels.  Widget and region sizes are drawn from even  *)
(* numbers so that the halvings the code performs (offsetWidth / 2,        *)
(* region.width / 2, 3 * offsetHeight / 2) are exact.  A style length is   *)
(* a sequence: <<n>> for "n px" and <<>> for an unset inline style, whose  *)
(* parseFloat is NaN.                                                      *)
(***************************************************************************)
EXTENDS Integers, Sequences, FiniteSets

\* ------------------------------------------------------------------ bounds
\* pointer positions 0 and 5 + 25k
MaxPageX == 2
\* selection edges 10 + 40k
MaxEdge == 1
\* region tops 100k
MaxTop == 1
\* widget widths 40 + 160k
MaxWidget == 1
\* animation-frame handles the browser hands out in one behaviour
MaxHandles == 2

\* ------------------------------------------------------- program constants
\* defaultProps.gutter
GutterLeft == 0
GutterTop == 10

\* ------------------------------------------------------------------- state
VARIABLES
    editorEvent,        \* this.props.editorEvent (present or not) and its data
    mounted,            \* ReactDOM.findDOMNode(this) is a node
    widget,             \* the node's offsetWidth / offsetHeight
    uiNode,             \* editor.get('uiNode'), or document.body when absent
    viewPaneWidth,      \* getViewPaneSize().width
    constrainToViewport,\* this.props.constrainToViewport
    hasRAF,             \* window.requestAnimationFrame exists
    hasCAF,             \* window.cancelAnimationFrame exists
    dom,                \* inline styles and classes of the widget node
    pending,            \* outstanding animation-frame requests: [id, endPoint]
    animationFrameId,   \* this._animationFrameId (0: undefined)
    nextHandle,         \* the handle the next requestAnimationFrame returns
    listeners,          \* transitionend listeners added to the node
    transition,         \* CSS transition in progress: 0 none, h the frame that
                        \* started it, -1 the synchronous fallback
    domLog,             \* the position writes made to the node, in order
    lastCall            \* the last method called, its argument and its result

vars == <<editorEvent, mounted, widget, uiNode, viewPaneWidth, constrainToViewport,
          hasRAF, hasCAF, dom, pending, animationFrameId, nextHandle, listeners,
          transition, domLog, lastCall>>

env == <<mounted, widget, uiNode, viewPaneWidth, constrainToViewport, hasRAF, hasCAF>>

\* ----------------------------------------------------------------- numbers
NaN == <<>>
Num(n) == <<n>>
IsNaN(v) == v = <<>>
Abs(n) == IF n < 0 THEN 0 - n ELSE n
Min(a, b) == IF a < b THEN a ELSE b
Max(a, b) == IF a > b THEN a ELSE b

Directions == {"TOP_TO_BOTTOM", "BOTTOM_TO_TOP", "LEFT_TO_RIGHT", "RIGHT_TO_LEFT", "none"}

\* ------------------------------------------------------------------ inputs
PageXs == {0} \cup {5 + 25 * k : k \in 0..MaxPageX}
Edges == {10 + 40 * k : k \in 0..MaxEdge}
Tops == {100 * k : k \in 0..MaxTop}
WidgetWidths == {40 + 160 * k : k \in 0..MaxWidget}

NoRect == [has |-> FALSE, left |-> 0, right |-> 0, top |-> 0]
Rects(tops) == {NoRect} \cup
    {[has |-> TRUE, left |-> e, right |-> e, top |-> t] : e \in Edges, t \in tops}

RegionsAt(dirs, t) ==
    {[top |-> t, bottom |-> t + 20, left |-> 10, right |-> 50, width |-> 40,
      direction |-> d, startRect |-> sr, endRect |-> er] :
        d \in dirs, sr \in Rects({t}), er \in Rects({t, t + 20})}
Regions(dirs, tops) == UNION {RegionsAt(dirs, t) : t \in tops}

NoNative == [has |-> FALSE, hasPageX |-> FALSE, pageX |-> 0,
             overflowAuto |-> FALSE, offsetTop |-> 0, offsetHeight |-> 0]
Natives(xs) ==
    {NoNative} \cup
    {[has |-> TRUE, hasPageX |-> FALSE, pageX |-> 0,
      overflowAuto |-> o, offsetTop |-> 200, offsetHeight |-> 60] : o \in BOOLEAN} \cup
    {[has |-> TRUE, hasPageX |-> TRUE, pageX |-> x,
      overflowAuto |-> o, offsetTop |-> 200, offsetHeight |-> 60] : x \in xs, o \in BOOLEAN}

NoEvent == [present |-> FALSE, nativeEvent |-> NoNative,
            region |-> [top |-> 0, bottom |-> 0, left |-> 0, right |-> 0, width |-> 0,
                        direction |-> "none", startRect |-> NoRect, endRect |-> NoRect]]
Events(regions, natives) ==
    {[present |-> TRUE, nativeEvent |-> n, region |-> r] : n \in natives, r \in regions}

\* every event of the resolver's specification
GeomEvents == {NoEvent} \cup Events(Regions(Directions, Tops), Natives(PageXs))
\* the events of the controller's specification
CtlEvents == {NoEvent} \cup
    Events({r \in Regions({"TOP_TO_BOTTOM", "BOTTOM_TO_TOP"}, {100}) :
                ~r.startRect.has /\ ~r.endRect.has},
           {n \in Natives({30}) : ~n.overflowAuto})

\* ---------------------------------------------------------------- resolver
Undefined == [kind |-> "undefined", direction |-> "none", x |-> 0, y |-> 0]
TypeError == [kind |-> "TypeError", direction |-> "none", x |-> 0, y |-> 0]
Point(d, x, y) == [kind |-> "point", direction |-> d, x |-> x, y |-> y]

\* faulty variant: a tie between the two distances selects left
_getXPointTieLeft(region, eventX) ==
    LET left == IF region.startRect.has THEN region.startRect.left ELSE region.left
        right == IF region.endRect.has THEN region.endRect.right ELSE region.right
    IN  IF left < eventX /\ right > eventX
        THEN eventX
        ELSE IF Abs(left - eventX) <= Abs(right - eventX) THEN left ELSE right

_getXPoint(region, eventX) ==
    LET left == IF region.startRect.has THEN region.startRect.left ELSE region.left
        right == IF region.endRect.has THEN region.endRect.right ELSE region.right
    IN  IF left < eventX /\ right > eventX
        THEN eventX
        ELSE LET leftDist == Abs(left - eventX)
                 rightDist == Abs(right - eventX)
             IN  IF leftDist < rightDist THEN left ELSE right

_getYPoint(region, nativeEvent) ==
    IF nativeEvent.has
    THEN IF nativeEvent.overflowAuto
         THEN nativeEvent.offsetTop + nativeEvent.offsetHeight
         ELSE region.bottom
    ELSE 0

\* the truthiness of pos.x && pos.y
Truthy(nativeEvent, region) ==
    nativeEvent.hasPageX /\ nativeEvent.pageX # 0 /\ region.top # 0

\* faulty variant: the early return for a missing event is gone, and the read of the
\* missing payload's fields fails
getInteractionPointNoGuard(ev) ==
    IF ~ev.nativeEvent.has THEN TypeError
    ELSE Point(ev.region.direction, ev.region.left + ev.region.width \div 2, ev.region.top)

getInteractionPoint(ev) ==
    IF ~ev.present THEN Undefined
    ELSE IF ~ev.nativeEvent.has THEN TypeError
    ELSE
        LET region == ev.region
            nativeEvent == ev.nativeEvent
            posY == region.top
            direction ==
                IF region.endRect.has /\ region.startRect.has
                   /\ region.startRect.top = region.endRect.top
                THEN "BOTTOM_TO_TOP" ELSE region.direction
        IN  IF Truthy(nativeEvent, region)
            THEN Point(direction,
                       _getXPoint(region, nativeEvent.pageX),
                       IF direction = "BOTTOM_TO_TOP"
                       THEN Min(posY, region.top)
                       ELSE Max(posY, _getYPoint(region, nativeEvent)))
            ELSE Point(direction,
                       region.left + region.width \div 2,
                       IF direction = "TOP_TO_BOTTOM"
                       THEN _getYPoint(region, nativeEvent)
                       ELSE region.top)

\* --------------------------------------------------------------- placement
getConstrainedPosition(attrs, viewPaneSize) ==
    [x |-> IF ~IsNaN(attrs.left) /\ attrs.left[1] + attrs.width > viewPaneSize.width
           THEN Num(attrs.left[1] - (attrs.left[1] + attrs.width - viewPaneSize.width))
           ELSE attrs.left,
     y |-> IF ~IsNaN(attrs.top) /\ attrs.top[1] < 0 THEN Num(0) ELSE attrs.top]

getWidgetXYPoint(left, top, direction) ==
    LET l1 == IF direction \in {"TOP_TO_BOTTOM", "BOTTOM_TO_TOP"}
              THEN left - GutterLeft - widget.offsetWidth \div 2
              ELSE IF direction = "LEFT_TO_RIGHT"
              THEN left + GutterLeft + widget.offsetHeight \div 2
              ELSE IF direction = "RIGHT_TO_LEFT"
              THEN left - (3 * widget.offsetHeight) \div 2 - GutterLeft
              ELSE left
        t1 == IF direction = "TOP_TO_BOTTOM" THEN top + GutterTop
              ELSE IF direction = "BOTTOM_TO_TOP"
              THEN top - widget.offsetHeight - GutterTop
              ELSE IF direction \in {"LEFT_TO_RIGHT", "RIGHT_TO_LEFT"}
              THEN top - GutterTop - widget.offsetHeight \div 2
              ELSE top
    IN  <<IF l1 < 0 THEN 0 ELSE l1, IF t1 < 0 THEN 0 ELSE t1>>

\* faulty variant: the clamp against the container's right edge is gone
ClampLeftNoUpper(left, totalWidth) == IF left < 0 THEN 0 ELSE left

\* the left updatePosition writes, after its clamp against the scroll container
ClampLeft(left, totalWidth) ==
    LET l1 == IF left < 0 THEN 0 ELSE left
    IN  IF l1 > totalWidth - widget.offsetWidth
        THEN totalWidth - widget.offsetWidth
        ELSE l1

\* -------------------------------------------------------------- controller
isVisible == mounted /\ "alloy-editor-visible" \in dom.classes

\* element.style.left = v + 'px': an invalid value ('NaNpx') is ignored
SetLen(old, v) == IF IsNaN(v) THEN old ELSE v

Call(op, threw, applied, arg, ret) ==
    [op |-> op, threw |-> threw, applied |-> applied, arg |-> arg, ret |-> ret]

NoUpd(log) == SelectSeq(log, LAMBDA e : e.w # "upd")
LogMark(log, w, id) == Append(NoUpd(log), [w |-> w, id |-> id])
LogUpd(log) ==
    IF Len(log) >= 2 /\ log[Len(log)].w = "upd" /\ log[Len(log) - 1].w = "upd"
    THEN log
    ELSE Append(log, [w |-> "upd", id |-> 0])
\* updatePosition writes since the last show or frame
TrailingUpd(log) == Len(log) - Len(NoUpd(log))

\* the styles moveToPoint sets before it calls _animate
StartState(d, startPoint) ==
    [d EXCEPT !.left = SetLen(d.left, startPoint[1]),
              !.top = SetLen(d.top, startPoint[2]),
              !.opacity = "0",
              !.pointerEvents = "none",
              !.classes = d.classes \ {"alloy-editor-invisible"}]

\* the callback moveToPoint hands to _animate
EndState(d, endPoint) ==
    [d EXCEPT !.left = SetLen(d.left, endPoint[1]),
              !.top = SetLen(d.top, endPoint[2]),
              !.opacity = "1",
              !.classes = d.classes \cup {"ae-toolbar-transition", "alloy-editor-visible"}]

Styled(d) == <<d.left, d.top, d.opacity>>

\* faulty variant: _animate is called before the start styles are set, so the
\* synchronous fallback runs the callback first
moveToPointAnimateFirst(startPoint, endPoint) ==
    /\ listeners' = listeners + 1
    /\ IF hasRAF
       THEN /\ nextHandle <= MaxHandles
            /\ dom' = StartState(dom, startPoint)
            /\ pending' = pending \cup {[id |-> nextHandle, endPoint |-> endPoint]}
            /\ animationFrameId' = nextHandle
            /\ nextHandle' = nextHandle + 1
            /\ domLog' = LogMark(domLog, "start", nextHandle)
            /\ UNCHANGED transition
       ELSE /\ dom' = StartState(EndState(dom, endPoint), startPoint)
            /\ domLog' = LogMark(LogMark(domLog, "end", 0), "start", 0)
            /\ transition' \in {transition, -1}
            /\ UNCHANGED <<pending, animationFrameId, nextHandle>>

moveToPoint(startPoint, endPoint) ==
    /\ listeners' = listeners + 1
    /\ IF hasRAF
       THEN /\ nextHandle <= MaxHandles
            /\ dom' = StartState(dom, startPoint)
            /\ pending' = pending \cup {[id |-> nextHandle, endPoint |-> endPoint]}
            /\ animationFrameId' = nextHandle
            /\ nextHandle' = nextHandle + 1
            /\ domLog' = LogMark(domLog, "start", nextHandle)
            /\ UNCHANGED transition
       ELSE /\ dom' = EndState(StartState(dom, startPoint), endPoint)
            /\ domLog' = LogMark(LogMark(domLog, "start", 0), "end", 0)
            /\ transition' \in {transition, -1}
            /\ UNCHANGED <<pending, animationFrameId, nextHandle>>

\* faulty variant: show no longer asks isVisible
showGuardIgnoresVisible == mounted

\* show acts only on a mounted widget that is not visible yet
showGuard == ~isVisible /\ mounted

show ==
    /\ UNCHANGED <<editorEvent, env>>
    /\ IF showGuard
       THEN LET interactionPoint == getInteractionPoint(editorEvent)
                scrollTop == IF uiNode.present THEN uiNode.scrollTop ELSE 0
            IN  IF interactionPoint.kind = "point"
                THEN LET res == IF constrainToViewport
                                THEN getConstrainedPosition(
                                        [height |-> widget.offsetHeight, left |-> dom.left,
                                         top |-> dom.top, width |-> widget.offsetWidth],
                                        [width |-> viewPaneWidth])
                                ELSE [x |-> dom.left, y |-> dom.top]
                         initialY == IF interactionPoint.direction = "TOP_TO_BOTTOM"
                                     THEN editorEvent.region.bottom + scrollTop
                                     ELSE editorEvent.region.top + scrollTop
                     IN  /\ moveToPoint(<<dom.left, Num(initialY)>>, <<res.x, res.y>>)
                         /\ lastCall' = Call("show", FALSE, TRUE, 0, interactionPoint)
                ELSE /\ lastCall' = Call("show", interactionPoint.kind = "TypeError",
                                         FALSE, 0, interactionPoint)
                     /\ UNCHANGED <<dom, pending, animationFrameId, nextHandle,
                                    listeners, transition, domLog>>
       ELSE /\ lastCall' = Call("show", FALSE, FALSE, 0, Undefined)
            /\ UNCHANGED <<dom, pending, animationFrameId, nextHandle,
                           listeners, transition, domLog>>

updatePosition ==
    /\ UNCHANGED <<editorEvent, env, pending, animationFrameId, nextHandle, listeners>>
    /\ LET interactionPoint == getInteractionPoint(editorEvent)
       IN  IF interactionPoint.kind = "point" /\ mounted
           THEN LET totalWidth == uiNode.marginLeft + uiNode.clientWidth + uiNode.marginRight
                    scrollTop == IF uiNode.present THEN uiNode.scrollTop ELSE 0
                    xy == getWidgetXYPoint(interactionPoint.x, interactionPoint.y,
                                           interactionPoint.direction)
                    left == ClampLeft(xy[1], totalWidth)
                    top == xy[2] + scrollTop
                    moved == <<dom.left, dom.top>> # <<Num(left), Num(top)>>
                IN  /\ dom' = [dom EXCEPT !.left = Num(left), !.top = Num(top)]
                    /\ domLog' = LogUpd(domLog)
                    /\ transition' = IF "ae-toolbar-transition" \in dom.classes /\ moved
                                        /\ transition = 0
                                     THEN -2 ELSE transition
                    /\ lastCall' = Call("updatePosition", FALSE, TRUE, 0, interactionPoint)
           ELSE /\ lastCall' = Call("updatePosition", interactionPoint.kind = "TypeError",
                                    FALSE, 0, interactionPoint)
                /\ UNCHANGED <<dom, domLog, transition>>

cancelAnimation ==
    /\ pending' = IF hasCAF THEN {f \in pending : f.id # animationFrameId} ELSE pending
    /\ lastCall' = Call("cancelAnimation", FALSE, FALSE, 0, Undefined)
    /\ UNCHANGED <<editorEvent, env, dom, animationFrameId, nextHandle, listeners,
                   transition, domLog>>

\* the browser runs the oldest outstanding animation-frame callback
animationFrame ==
    \E f \in pending :
        /\ \A g \in pending : f.id <= g.id
        /\ pending' = pending \ {f}
        /\ dom' = EndState(dom, f.endPoint)
        /\ transition' = IF Styled(dom') # Styled(dom) THEN f.id ELSE transition
        /\ domLog' = LogMark(domLog, "end", f.id)
        /\ lastCall' = Call("animationFrame", FALSE, TRUE, f.id, Undefined)
        /\ UNCHANGED <<editorEvent, env, animationFrameId, nextHandle, listeners>>

\* the transitionend event of the running CSS transition: every listener that
\* moveToPoint added runs
transitionend ==
    /\ transition # 0
    /\ transition' = 0
    /\ dom' = IF listeners > 0 THEN [dom EXCEPT !.pointerEvents = ""] ELSE dom
    /\ lastCall' = Call("transitionend", FALSE, listeners > 0, transition, Undefined)
    /\ UNCHANGED <<editorEvent, env, pending, animationFrameId, nextHandle, listeners,
                   domLog>>

\* a call of getInteractionPoint, and of _getXPoint, recording what it returns
callGetInteractionPoint ==
    /\ lastCall' = Call("getInteractionPoint",
                        getInteractionPoint(editorEvent).kind = "TypeError", FALSE, 0,
                        getInteractionPoint(editorEvent))
    /\ UNCHANGED <<editorEvent, env, dom, pending, animationFrameId, nextHandle,
                   listeners, transition, domLog>>

callGetXPoint ==
    /\ editorEvent.present
    /\ \E eventX \in PageXs :
        lastCall' = Call("_getXPoint", FALSE, FALSE, eventX,
                         [kind |-> "number", direction |-> "none",
                          x |-> _getXPoint(editorEvent.region, eventX), y |-> 0])
    /\ UNCHANGED <<editorEvent, env, dom, pending, animationFrameId, nextHandle,
                   listeners, transition, domLog>>

\* the owner renders the widget with a new editorEvent prop
setProps ==
    /\ \E ev \in CtlEvents : ev # editorEvent /\ editorEvent' = ev
    /\ lastCall' = Call("setProps", FALSE, FALSE, 0, Undefined)
    /\ UNCHANGED <<env, dom, pending, animationFrameId, nextHandle, listeners,
                   transition, domLog>>

\* the component mounts: findDOMNode returns its node from now on
mount ==
    /\ ~mounted
    /\ mounted' = TRUE
    /\ lastCall' = Call("mount", FALSE, FALSE, 0, Undefined)
    /\ UNCHANGED <<editorEvent, widget, uiNode, viewPaneWidth, constrainToViewport,
                   hasRAF, hasCAF, dom, pending, animationFrameId, nextHandle,
                   listeners, transition, domLog>>

\* ---------------------------------------------------------- specifications
InitDom == [left |-> NaN, top |-> NaN, opacity |-> "", pointerEvents |-> "",
            classes |-> {"alloy-editor-invisible"}]

InitWidgetState ==
    /\ dom = InitDom
    /\ pending = {}
    /\ animationFrameId = 0
    /\ nextHandle = 1
    /\ listeners = 0
    /\ transition = 0
    /\ domLog = <<>>
    /\ lastCall = Call("constructor", FALSE, FALSE, 0, Undefined)

\* a scrolled container with margins, or none (document.body stands in)
UiNodes ==
    {[present |-> p, scrollTop |-> IF p THEN 30 ELSE 0, clientWidth |-> 60,
      marginLeft |-> IF p THEN 8 ELSE 0, marginRight |-> IF p THEN 8 ELSE 0] :
        p \in BOOLEAN}

\* the controller: one widget, shown, moved and animated
Init ==
    /\ InitWidgetState
    /\ editorEvent = NoEvent
    /\ mounted = FALSE
    /\ widget = [offsetWidth |-> 40, offsetHeight |-> 20]
    /\ uiNode \in {u \in UiNodes : u.present}
    /\ viewPaneWidth = 60
    /\ constrainToViewport \in BOOLEAN
    /\ hasRAF \in BOOLEAN
    /\ hasCAF \in {c \in BOOLEAN : c => hasRAF}

Next ==
    \/ mount
    \/ setProps
    \/ show
    \/ updatePosition
    \/ cancelAnimation
    \/ animationFrame
    \/ transitionend

Spec == Init /\ [][Next]_vars

\* the resolver and the placement, over every event and geometry of the bounds
InitGeom ==
    /\ InitWidgetState
    /\ editorEvent \in GeomEvents
    /\ mounted = TRUE
    /\ widget \in {[offsetWidth |-> w, offsetHeight |-> 20] : w \in WidgetWidths}
    /\ uiNode \in UiNodes
    /\ viewPaneWidth = 60
    /\ constrainToViewport = TRUE
    /\ hasRAF = TRUE
    /\ hasCAF = TRUE

NextGeom ==
    \/ callGetInteractionPoint
    \/ callGetXPoint
    \/ updatePosition

SpecGeom == InitGeom /\ [][NextGeom]_vars

\* ------------------------------------------------------------------ claims
TotalWidth == uiNode.marginLeft + uiNode.clientWidth + uiNode.marginRight
XLeft(region) == IF region.startRect.has THEN region.startRect.left ELSE region.left
XRight(region) == IF region.endRect.has THEN region.endRect.right ELSE region.right
WidgetState == <<dom, pending, animationFrameId, nextHandle, listeners, transition, domLog>>

\* C1: at most one animation-frame request is outstanding for the widget in
\* every reachable state (a new request is preceded by the cancellation of
\* the pending one).
C1_AtMostOneOutstanding == Cardinality(pending) <= 1

\* C2: show called while the widget is visible, or while it is not mounted,
\* changes no style and no class of the widget, schedules no animation frame
\* and adds no listener.
C2_ShowNoOp ==
    [][(show /\ (isVisible \/ ~mounted)) => UNCHANGED WidgetState]_vars

\* C2 witness: show has just been called on a visible widget whose event
\* resolves to a point, and did not act.
C2_ShownWhileVisible ==
    /\ lastCall.op = "show"
    /\ ~lastCall.applied
    /\ isVisible
    /\ getInteractionPoint(editorEvent).kind = "point"

\* C3: when updatePosition has been requested twice before a pending
\* animation frame fires, the position the widget holds once that frame has
\* fired is the second request's: the earlier callback does not overwrite it.
C3_SecondPositionStands ==
    [][(animationFrame /\ TrailingUpd(domLog) >= 2)
         => (dom'.left = dom.left /\ dom'.top = dom.top)]_vars

\* C4: within one show the start state is applied before the callback is
\* scheduled or run: every end-state write follows the start-state write of
\* the same show, a show that scheduled a frame leaves the start state on the
\* widget, and a show whose callback ran synchronously leaves the end state.
C4_StartBeforeEnd ==
    /\ \A i \in 1..Len(domLog) :
          domLog[i].w = "end" =>
              \E j \in 1..(i - 1) : domLog[j].w = "start" /\ domLog[j].id = domLog[i].id
    /\ (lastCall.op = "show" /\ lastCall.applied /\ hasRAF) =>
          /\ dom.opacity = "0"
          /\ dom.pointerEvents = "none"
          /\ "alloy-editor-invisible" \notin dom.classes
          /\ animationFrameId \in {f.id : f \in pending}
    /\ (lastCall.op = "show" /\ lastCall.applied /\ ~hasRAF) =>
          /\ dom.opacity = "1"
          /\ "alloy-editor-visible" \in dom.classes

\* C4 witness: a show without requestAnimationFrame has applied the start
\* state and then the end state.
C4_SynchronousShow ==
    /\ lastCall.op = "show"
    /\ lastCall.applied
    /\ ~hasRAF
    /\ domLog = <<[w |-> "start", id |-> 0], [w |-> "end", id |-> 0]>>

\* C5: while an animation started by show is not complete (its frame is
\* outstanding, or the transition it started is running), pointer events on
\* the widget are disabled.
C5_DisabledUntilTransitionEnd ==
    (pending # {} \/ transition > 0 \/ transition = -1) => dom.pointerEvents = "none"

\* C6: with no interaction event the resolver returns no point, and show and
\* updatePosition change nothing on the widget, schedule no frame and raise
\* no error.
C6_NoEventSkips ==
    [][(~editorEvent.present /\ (show \/ updatePosition))
         => /\ lastCall'.ret = Undefined
            /\ ~lastCall'.threw
            /\ ~lastCall'.applied
            /\ UNCHANGED WidgetState]_vars

\* C6 witness: updatePosition has just been called on a mounted widget with
\* no interaction event.
C6_UpdatedWithoutEvent ==
    /\ lastCall.op = "updatePosition"
    /\ ~editorEvent.present
    /\ mounted
    /\ lastCall.ret = Undefined

\* C7: for every event whose native event has a pageX (whatever its value)
\* the resolver takes the pointer branch: x is the X-edge heuristic of pageX,
\* y the lesser of pointer y and region top for BOTTOM_TO_TOP and otherwise
\* the greater of pointer y and the Y-edge heuristic.
C7_PointerBranch ==
    (/\ lastCall.op = "getInteractionPoint"
     /\ editorEvent.present
     /\ editorEvent.nativeEvent.has
     /\ editorEvent.nativeEvent.hasPageX)
    => /\ lastCall.ret.kind = "point"
       /\ lastCall.ret.x = _getXPoint(editorEvent.region, editorEvent.nativeEvent.pageX)
       /\ lastCall.ret.y =
             IF lastCall.ret.direction = "BOTTOM_TO_TOP"
             THEN Min(editorEvent.region.top, editorEvent.region.top)
             ELSE Max(editorEvent.region.top,
                      _getYPoint(editorEvent.region, editorEvent.nativeEvent))

\* C8, as stated: every position updatePosition applies has
\* 0 <= left <= totalWidth - widgetWidth.
C8_LeftInRange ==
    (lastCall.op = "updatePosition" /\ lastCall.applied)
    => /\ 0 <= dom.left[1]
       /\ dom.left[1] <= TotalWidth - widget.offsetWidth

\* C8, amended: every position updatePosition applies has
\* left <= totalWidth - widgetWidth; left >= 0 when the widget fits the
\* container, and left = totalWidth - widgetWidth when it is wider.
C8_LeftClamped ==
    (lastCall.op = "updatePosition" /\ lastCall.applied)
    => /\ dom.left[1] <= TotalWidth - widget.offsetWidth
       /\ (TotalWidth >= widget.offsetWidth => 0 <= dom.left[1])
       /\ (TotalWidth < widget.offsetWidth => dom.left[1] = TotalWidth - widget.offsetWidth)

\* C8 witness: updatePosition has clamped a placement that overflowed the
\* right edge of a container the widget fits in.
C8_ClampedAtRight ==
    /\ lastCall.op = "updatePosition"
    /\ lastCall.applied
    /\ TotalWidth >= widget.offsetWidth
    /\ getWidgetXYPoint(lastCall.ret.x, lastCall.ret.y, lastCall.ret.direction)[1]
          > TotalWidth - widget.offsetWidth
    /\ dom.left[1] = TotalWidth - widget.offsetWidth

\* C9: for an event with no usable pointer (no native event, or a native
\* event without pageX) the resolver does not fail and returns the region's
\* horizontal midpoint, with y the Y-edge heuristic for TOP_TO_BOTTOM and the
\* region top otherwise.
C9_KeyboardBranch ==
    (/\ lastCall.op = "getInteractionPoint"
     /\ editorEvent.present
     /\ ~(editorEvent.nativeEvent.has /\ editorEvent.nativeEvent.hasPageX))
    => /\ lastCall.ret.kind = "point"
       /\ lastCall.ret.x = editorEvent.region.left + editorEvent.region.width \div 2
       /\ lastCall.ret.y =
             IF lastCall.ret.direction = "TOP_TO_BOTTOM"
             THEN _getYPoint(editorEvent.region, editorEvent.nativeEvent)
             ELSE editorEvent.region.top

\* C10: _getXPoint returns the pointer x when it lies strictly between left
\* and right; otherwise left when left is strictly closer and right in every
\* other case, the tie included; the result is one of left, right, pointer x.
C10_XEdge ==
    lastCall.op = "_getXPoint" =>
        LET left == XLeft(editorEvent.region)
            right == XRight(editorEvent.region)
            x == lastCall.arg
            r == lastCall.ret.x
            inside == left < x /\ x < right
        IN  /\ inside => r = x
            /\ (~inside /\ Abs(left - x) < Abs(right - x)) => r = left
            /\ (~inside /\ Abs(left - x) >= Abs(right - x)) => r = right
            /\ r \in {left, right, x}

\* C10 witness: a pointer equally far from two different edges, resolved to
\* the right one.
C10_TieGoesRight ==
    /\ lastCall.op = "_getXPoint"
    /\ XLeft(editorEvent.region) # XRight(editorEvent.region)
    /\ Abs(XLeft(editorEvent.region) - lastCall.arg)
          = Abs(XRight(editorEvent.region) - lastCall.arg)
    /\ lastCall.ret.x = XRight(editorEvent.region)

====
